---- MODULE Spec2Model ----
(***************************************************************************)
(* NoctFS (src/src/lib.rs, src/src/entity.rs, src/src/bootsector.rs):      *)
(* the chainmap allocator, chain I/O and the directory record engine,      *)
(* modelled at the level of chainmap entries and data-zone bytes.          *)
(*                                                                         *)
(* Numbers.  Every u32/u64 the model handles is below 2^24 or is "huge".   *)
(* Huge stands for every value >= 2^24; the code only ever compares such   *)
(* a value with a block count or a buffer length (both far below 2^24),    *)
(* so all huge values behave alike.  END = 0xFFFF_FFFF_FFFF_FFFF is huge.  *)
(***************************************************************************)
EXTENDS Integers, Sequences, FiniteSets, TLC

\* The device: its first sector (sector), the chainmap that follows it and
\* the data zone (dz).  crashed: a call has panicked or does not return.
\* last: the last call and what it answered.  created: per directory, the
\* entities the create calls have returned, as long as no other call has
\* been made.
VARIABLES chainmap, dz, sector, crashed, last, steps, created

vars == <<chainmap, dz, sector, crashed, last, steps, created>>

\* Geometry of the formatted device (format's block_size argument and the
\* block_map_count it derives from the device size), scaled down.
BlockSize == 104
BlockMapCount == 6
\* Largest block count handed to the allocator operations when they are
\* called directly.
MaxCount == 2
\* Number of operations in a run.
MaxSteps == 5
\* Number of direct allocator calls in a run.
MaxAllocSteps == 4

Huge == 256 * 256 * 256
END == Huge
None == -1

Blocks == 0 .. (BlockMapCount - 1)

Min(a, b) == IF a < b THEN a ELSE b

\* f itself, as the explicit table of its values.  (TLC keeps a function
\* constructor unevaluated; an EXCEPT is only ever applied to a table.)
Table(f) == f @@ f

----------------------------------------------------------------------------
(* Chainmap allocator                                                      *)

get_block(cm, nr) == IF nr >= BlockMapCount THEN None ELSE cm[nr]

write_block(cm, nr, value) ==
    IF nr >= BlockMapCount THEN cm ELSE [cm EXCEPT ![nr] = value]

\* A find_block that scans from the highest index down.
find_block_from_top(cm) ==
    IF \E i \in Blocks : get_block(cm, i) = 0
    THEN CHOOSE i \in Blocks :
             /\ get_block(cm, i) = 0
             /\ \A j \in Blocks : get_block(cm, j) = 0 => i >= j
    ELSE None

find_block(cm) ==
    IF \E i \in Blocks : get_block(cm, i) = 0
    THEN CHOOSE i \in Blocks :
             /\ get_block(cm, i) = 0
             /\ \A j \in Blocks : get_block(cm, j) = 0 => i <= j
    ELSE None

\* The for loop of allocate_blocks: `left` iterations remain, `prev` is
\* previous_block.  find_block().unwrap() panics when no block is free;
\* the blocks marked so far stay marked.
RECURSIVE allocate_loop(_, _, _)
allocate_loop(cm, prev, left) ==
    IF left = 0
    THEN [ok |-> TRUE, cm |-> write_block(cm, prev, END)]
    ELSE LET new_block == find_block(cm)
         IN  IF new_block = None
             THEN [ok |-> FALSE, cm |-> cm]
             ELSE allocate_loop(
                      write_block(write_block(cm, prev, new_block), new_block, END),
                      new_block, left - 1)

\* allocate_blocks(count): [ok, cm, ret]; ok = FALSE is a panic.
allocate_blocks(cm, count) ==
    IF count = 0
    THEN [ok |-> TRUE, cm |-> cm, ret |-> None]
    ELSE LET first_block == find_block(cm)
             r == allocate_loop(cm, first_block, count)
         IN  [ok |-> r.ok, cm |-> r.cm, ret |-> first_block]

\* get_chain(start_block): the while loop pushes current_block as long as
\* get_block answers Some.  Once BlockMapCount blocks are pushed and the
\* next one is still in range the walk is inside a cycle and never ends
\* (ok = FALSE).
RECURSIVE chain_walk(_, _, _)
chain_walk(cm, current_block, blocks) ==
    IF get_block(cm, current_block) = None
    THEN [ok |-> TRUE, blocks |-> blocks]
    ELSE IF Len(blocks) >= BlockMapCount
         THEN [ok |-> FALSE, blocks |-> blocks]
         ELSE chain_walk(cm, get_block(cm, current_block),
                         Append(blocks, current_block))

get_chain(cm, start_block) == chain_walk(cm, start_block, <<>>)

\* The while loop of free_blocks.  Every visited entry is zeroed, so a
\* walk that does not stop at an END entry ends up at block 0; it loops
\* there forever when entry 0 is 0 (ok = FALSE).
RECURSIVE free_loop(_, _)
free_loop(cm, current_block) ==
    LET block == get_block(cm, current_block)
    IN  IF block = None
        THEN [ok |-> TRUE, cm |-> cm]
        ELSE IF block = END
             THEN [ok |-> TRUE, cm |-> write_block(cm, current_block, 0)]
             ELSE IF current_block = 0 /\ block = 0
                  THEN [ok |-> FALSE, cm |-> cm]
                  ELSE free_loop(write_block(cm, current_block, 0), block)

\* A free_blocks without the early return on block 0.
free_blocks_unguarded(cm, start_block) == free_loop(cm, start_block)

free_blocks(cm, start_block) ==
    IF start_block = 0
    THEN [ok |-> TRUE, cm |-> cm]
    ELSE free_loop(cm, start_block)

\* extend_chain_by: chain.last().unwrap() and allocate_blocks(..).unwrap()
\* panic on an empty chain and on None.
\* An extension that allocates the blocks but does not link them to the
\* chain.
extend_chain_unlinked(cm, start_block, count) ==
    [ok |-> allocate_blocks(cm, count).ok, cm |-> allocate_blocks(cm, count).cm]

extend_chain_by(cm, start_block, count) ==
    LET chain == get_chain(cm, start_block)
    IN  IF ~chain.ok \/ Len(chain.blocks) = 0
        THEN [ok |-> FALSE, cm |-> cm]
        ELSE LET lastb == chain.blocks[Len(chain.blocks)]
                 a == allocate_blocks(cm, count)
             IN  IF ~a.ok \/ a.ret = None
                 THEN [ok |-> FALSE, cm |-> a.cm]
                 ELSE [ok |-> TRUE, cm |-> write_block(a.cm, lastb, a.ret)]

\* Zero work_area[1..]: the blocks of chain at (1-based) positions from..Len.
RECURSIVE zero_blocks(_, _, _)
zero_blocks(cm, blocks, from) ==
    IF from > Len(blocks)
    THEN cm
    ELSE zero_blocks(write_block(cm, blocks[from], 0), blocks, from + 1)

\* shrink_chain_by: chain.len() - count - 1 underflows when count equals
\* the chain length: a panic in a debug build, and in a release build the
\* wrapped index is past the slice and the slicing panics.
shrink_chain_by(cm, start_block, count) ==
    LET chain == get_chain(cm, start_block)
        len == Len(chain.blocks)
    IN  IF ~chain.ok
        THEN [ok |-> FALSE, cm |-> cm]
        ELSE IF count = 0 \/ count > len
             THEN [ok |-> TRUE, cm |-> cm]
             ELSE IF len - count - 1 < 0
                  THEN [ok |-> FALSE, cm |-> cm]
                  ELSE LET base == len - count - 1
                       IN  [ok |-> TRUE,
                            cm |-> zero_blocks(
                                       write_block(cm, chain.blocks[base + 1], END),
                                       chain.blocks, base + 2)]

set_chain_size(cm, start_block, count) ==
    LET chain == get_chain(cm, start_block)
        chain_length == Len(chain.blocks)
    IN  IF ~chain.ok
        THEN [ok |-> FALSE, cm |-> cm]
        ELSE IF chain_length = count
             THEN [ok |-> TRUE, cm |-> cm]
             ELSE IF chain_length > count
                  THEN shrink_chain_by(cm, start_block, chain_length - count)
                  ELSE extend_chain_by(cm, start_block, count - chain_length)

----------------------------------------------------------------------------
(* Bytes and little-endian integers                                        *)

\* n.to_le_bytes() on `width` bytes, for n < 2^24; END is all 0xFF.
to_le_bytes(n, width) ==
    [i \in 1 .. width |->
        IF n >= Huge THEN 255
        ELSE IF i = 1 THEN n % 256
        ELSE IF i = 2 THEN (n \div 256) % 256
        ELSE IF i = 3 THEN (n \div 65536) % 256
        ELSE 0]

\* u32/u64::from_le_bytes of the `width` bytes of data after position index
\* (0-based); a value of 2^24 or more is Huge.
from_le_bytes(data, index, width) ==
    IF \E i \in 4 .. width : data[index + i] # 0
    THEN Huge
    ELSE data[index + 1]
         + (IF width >= 2 THEN 256 * data[index + 2] ELSE 0)
         + (IF width >= 3 THEN 65536 * data[index + 3] ELSE 0)

Zeros(n) == [i \in 1 .. n |-> 0]

\* data[from..to] of Rust (0-based, `to` excluded).
Slice(data, from, to) == SubSeq(data, from + 1, to)

\* data[at..at+Len(bytes)].copy_from_slice(bytes)
copy_from_slice(data, at, bytes) ==
    [k \in 1 .. Len(data) |->
        IF k - 1 >= at /\ k - 1 < at + Len(bytes) THEN bytes[k - at] ELSE data[k]]

----------------------------------------------------------------------------
(* Entity codec (entity.rs)                                                *)

Entity_file(name, size, start_block) ==
    [name |-> name, size |-> size, start_block |-> start_block,
     flags |-> 0, vendor_data_size |-> 0]

Entity_directory(name, size, start_block) ==
    [name |-> name, size |-> size, start_block |-> start_block,
     flags |-> 1, vendor_data_size |-> 0]

header_size(e) == 4 + Len(e.name) + 8 + 8 + 4 + 4 + e.vendor_data_size

fact_size(e) == header_size(e) + 4

as_raw(e) ==
    to_le_bytes(header_size(e), 4) \o to_le_bytes(Len(e.name), 4) \o e.name
    \o to_le_bytes(e.size, 8) \o to_le_bytes(e.start_block, 8)
    \o to_le_bytes(e.flags, 4) \o to_le_bytes(e.vendor_data_size, 4)

is_directory(e) == e.flags % 2 = 1

is_file(e) == ~is_directory(e)

NoEntity == Entity_file(<<>>, 0, 0)

\* Entity::from_raw: every split_at panics past the end of the slice, and
\* EntityFlags::from_bits(..).unwrap() panics on a bit other than bit 0.
\* (from_utf8_lossy keeps ASCII bytes as they are; names are ASCII here.)
from_raw(data) ==
    IF Len(data) < 8
    THEN [ok |-> FALSE, e |-> NoEntity]
    ELSE LET namesize == from_le_bytes(data, 4, 4)
         IN  IF 8 + namesize + 24 > Len(data)
             THEN [ok |-> FALSE, e |-> NoEntity]
             ELSE LET flags == from_le_bytes(data, 8 + namesize + 16, 4)
                  IN  IF flags > 1
                      THEN [ok |-> FALSE, e |-> NoEntity]
                      ELSE [ok |-> TRUE,
                            e |-> [name |-> Slice(data, 8, 8 + namesize),
                                   size |-> from_le_bytes(data, 8 + namesize, 8),
                                   start_block |->
                                       from_le_bytes(data, 8 + namesize + 8, 8),
                                   flags |-> flags,
                                   vendor_data_size |->
                                       from_le_bytes(data, 8 + namesize + 20, 4)]]

----------------------------------------------------------------------------
(* Device and chain I/O.  dz[b] holds the BlockSize bytes at                *)
(* datazone_offset_with_block(b); positions are relative to                *)
(* datazone_offset().  dz[BlockMapCount] is what lies after the last block *)
(* (a file-backed device, as in examples/alloc.rs, accepts writes there).  *)

DzBlocks == 0 .. BlockMapCount

datazone_offset_with_block(block) == block * BlockSize

\* device.seek(Start(pos)); device.write(bytes)
device_write(d, pos, bytes) ==
    [b \in DzBlocks |->
        IF (b + 1) * BlockSize <= pos \/ b * BlockSize >= pos + Len(bytes)
        THEN d[b]
        ELSE [i \in 1 .. BlockSize |->
                 LET p == b * BlockSize + i - 1
                 IN  IF p >= pos /\ p < pos + Len(bytes)
                     THEN bytes[p - pos + 1]
                     ELSE d[b][i]]]

\* device.seek(Start(pos)); device.read(n bytes)
device_read(d, pos, n) ==
    [k \in 1 .. n |->
        d[(pos + k - 1) \div BlockSize][((pos + k - 1) % BlockSize) + 1]]

\* The for loop of read_blocks_data over chain[chain_off..]; nr is 0-based.
\* read_size -= first_occurency_offset underflows when read_size is the
\* smaller (a panic in a debug build; in a release build the wrapped size
\* makes the slice end past the buffer, a panic too), and the slice
\* data[data_offset..end_offset] panics past the buffer.
RECURSIVE read_loop(_, _, _, _, _, _)
read_loop(d, chain, nr, data, data_length, first_off) ==
    IF nr >= Len(chain)
    THEN [ok |-> TRUE, data |-> data]
    ELSE LET data_offset == nr * BlockSize
             size0 == Min(data_length, BlockSize)
         IN  IF size0 = 0
             THEN [ok |-> TRUE, data |-> data]
             ELSE IF nr = 0 /\ size0 < first_off
                  THEN [ok |-> FALSE, data |-> data]
                  ELSE LET read_size == IF nr = 0 THEN size0 - first_off ELSE size0
                           end_offset == data_offset + read_size
                           pos == datazone_offset_with_block(chain[nr + 1])
                                  + (IF nr = 0 THEN first_off ELSE 0)
                       IN  IF end_offset > Len(data)
                           THEN [ok |-> FALSE, data |-> data]
                           ELSE read_loop(d, chain, nr + 1,
                                    copy_from_slice(data, data_offset,
                                        device_read(d, pos, read_size)),
                                    data_length - read_size, first_off)

\* read_blocks_data(start_block, data, offset): [ok, data]
read_blocks_data(cm, d, start_block, data, offset) ==
    LET chain == get_chain(cm, start_block)
        chain_off == offset \div BlockSize
        first_occurency_offset == offset % BlockSize
    IN  IF ~chain.ok
        THEN [ok |-> FALSE, data |-> data]
        ELSE IF chain_off > Len(chain.blocks)
             THEN [ok |-> TRUE, data |-> data]
             ELSE read_loop(d, Slice(chain.blocks, chain_off, Len(chain.blocks)),
                            0, data, Len(data), first_occurency_offset)

\* The for loop of write_blocks_data.  write_size is not reduced by the
\* intra-block offset, so the first write may run past its block into the
\* bytes that follow it on the device; data[data_offset..end_offset]
\* panics once data_offset is past the buffer.
RECURSIVE write_loop(_, _, _, _, _, _)
write_loop(d, chain, nr, data, data_length, first_off) ==
    IF nr >= Len(chain)
    THEN [ok |-> TRUE, dz |-> d]
    ELSE LET data_offset == nr * BlockSize
             write_size == Min(data_length, BlockSize)
             end_offset == data_offset + write_size
             pos == datazone_offset_with_block(chain[nr + 1])
                    + (IF nr = 0 THEN first_off ELSE 0)
         IN  IF end_offset > Len(data)
             THEN [ok |-> FALSE, dz |-> d]
             ELSE write_loop(
                      device_write(d, pos, Slice(data, data_offset, end_offset)),
                      chain, nr + 1, data, data_length - write_size, first_off)

\* write_blocks_data(start_block, data, offset): [ok, dz]
write_blocks_data(cm, d, start_block, data, offset) ==
    LET chain == get_chain(cm, start_block)
        chain_off == offset \div BlockSize
        first_occurency_offset == offset % BlockSize
    IN  IF ~chain.ok
        THEN [ok |-> FALSE, dz |-> d]
        ELSE IF chain_off > Len(chain.blocks)
             THEN [ok |-> TRUE, dz |-> d]
             ELSE write_loop(d, Slice(chain.blocks, chain_off, Len(chain.blocks)),
                             0, data, Len(data), first_occurency_offset)

\* read_chain_data_vec(start_block): [ok, data]
read_chain_data_vec(cm, d, start_block) ==
    LET chain == get_chain(cm, start_block)
    IN  IF ~chain.ok
        THEN [ok |-> FALSE, data |-> <<>>]
        ELSE read_blocks_data(cm, d, start_block,
                              Zeros(Len(chain.blocks) * BlockSize), 0)

----------------------------------------------------------------------------
(* Directory engine.  Operations answer [ok, cm, dz, ret]; ok = FALSE is a *)
(* panic (or a loop that never ends), cm and dz are then what the          *)
(* operation had written before it.  An operation of several steps is      *)
(* written as one definition per step, each handed the result of the step  *)
(* before it.                                                              *)

Done(cm, d, ret) == [ok |-> TRUE, cm |-> cm, dz |-> d, ret |-> ret]

Panic(cm, d) == [ok |-> FALSE, cm |-> cm, dz |-> d, ret |-> None]

\* The result of an operation that ends with write_blocks_data (w).
Written(cm, w) == [ok |-> w.ok, cm |-> cm, dz |-> w.dz, ret |-> None]

\* The while loop of list_directory: data[index..index + 4] panics when
\* fewer than 4 bytes are left, and so may Entity::from_raw.
RECURSIVE list_loop(_, _, _)
list_record(data, index, ents, hsize, r) ==
    IF hsize = 0
    THEN [ok |-> TRUE, ents |-> ents]
    ELSE IF ~r.ok
         THEN [ok |-> FALSE, ents |-> ents]
         ELSE list_loop(data, index + hsize + 4, Append(ents, r.e))

list_loop(data, index, ents) ==
    IF index >= Len(data)
    THEN [ok |-> TRUE, ents |-> ents]
    ELSE IF index + 4 > Len(data)
         THEN [ok |-> FALSE, ents |-> ents]
         ELSE list_record(data, index, ents, from_le_bytes(data, index, 4),
                          from_raw(Slice(data, index, Len(data))))

list_data(data) ==
    IF ~data.ok THEN [ok |-> FALSE, ents |-> <<>>] ELSE list_loop(data.data, 0, <<>>)

\* list_directory(directory_block): [ok, ents]
list_directory(cm, d, directory_block) ==
    list_data(read_chain_data_vec(cm, d, directory_block))

\* The while loop of allocate_for_entity.  array_ref![data[index..], 0, 4]
\* panics when fewer than 4 bytes are left.  data.len() - index is only
\* negative when index has run past the data: a debug build panics on the
\* subtraction, a release build wraps, does not extend and leaves the loop
\* with None, on which write_entity (the only caller) panics.
RECURSIVE allocate_for_entity_loop(_, _, _, _, _, _)
allocate_for_entity_reread(cm, d, directory_block, entity, data, index) ==
    IF ~data.ok
    THEN Panic(cm, d)
    ELSE allocate_for_entity_loop(cm, d, directory_block, entity, data.data, index)

allocate_for_entity_extended(x, d, directory_block, entity, index) ==
    IF ~x.ok
    THEN Panic(x.cm, d)
    ELSE allocate_for_entity_reread(x.cm, d, directory_block, entity,
             read_chain_data_vec(x.cm, d, directory_block), index)

allocate_for_entity_record(cm, d, directory_block, entity, data, index, hsize) ==
    IF hsize = 0
    THEN Done(cm, d, index)
    ELSE IF index + hsize + 4 > Len(data)
         THEN Panic(cm, d)
         ELSE IF fact_size(entity) >= Len(data) - (index + hsize + 4)
              THEN allocate_for_entity_extended(
                       extend_chain_by(cm, directory_block, 1), d,
                       directory_block, entity, index + hsize + 4)
              ELSE allocate_for_entity_loop(cm, d, directory_block, entity, data,
                                            index + hsize + 4)

allocate_for_entity_loop(cm, d, directory_block, entity, data, index) ==
    IF index >= Len(data)
    THEN Done(cm, d, None)
    ELSE IF index + 4 > Len(data)
         THEN Panic(cm, d)
         ELSE allocate_for_entity_record(cm, d, directory_block, entity, data,
                  index, from_le_bytes(data, index, 4))

allocate_for_entity(cm, d, directory_block, entity) ==
    allocate_for_entity_reread(cm, d, directory_block, entity,
        read_chain_data_vec(cm, d, directory_block), 0)

\* write_entity: allocate_for_entity(..).unwrap(), and the copy_from_slice
\* target data[allocated..allocated + raw_entity.len()] panics past the data.
write_entity_data(a, data, directory_block, raw_entity) ==
    IF ~data.ok \/ a.ret + Len(raw_entity) > Len(data.data)
    THEN Panic(a.cm, a.dz)
    ELSE Written(a.cm,
             write_blocks_data(a.cm, a.dz, directory_block,
                 copy_from_slice(data.data, a.ret, raw_entity), 0))

write_entity_at(a, directory_block, entity) ==
    IF ~a.ok \/ a.ret = None
    THEN Panic(a.cm, a.dz)
    ELSE write_entity_data(a, read_chain_data_vec(a.cm, a.dz, directory_block),
                           directory_block, as_raw(entity))

write_entity(cm, d, directory_block, entity) ==
    write_entity_at(allocate_for_entity(cm, d, directory_block, entity),
                    directory_block, entity)

\* write_entity on the result r of the step before it.
then_write_entity(r, directory_block, entity) ==
    IF ~r.ok THEN r ELSE write_entity(r.cm, r.dz, directory_block, entity)

\* `Ok(entity)` of an operation whose last step answered r.
returning(r, entity) == IF r.ok THEN [r EXCEPT !.ret = entity] ELSE r

DotName == <<46>>
DotDotName == <<46, 46>>

create_directory_in(a, d, directory_block, name) ==
    IF ~a.ok \/ a.ret = None
    THEN Panic(a.cm, d)
    ELSE returning(
             then_write_entity(
                 then_write_entity(
                     write_entity(a.cm, d, directory_block,
                                  Entity_directory(name, 0, a.ret)),
                     a.ret, Entity_directory(DotName, 0, a.ret)),
                 a.ret, Entity_directory(DotDotName, 0, directory_block)),
             Entity_directory(name, 0, a.ret))

create_directory(cm, d, directory_block, name) ==
    create_directory_in(allocate_blocks(cm, 1), d, directory_block, name)

create_file_in(a, d, directory_block, name) ==
    IF ~a.ok \/ a.ret = None
    THEN Panic(a.cm, d)
    ELSE returning(write_entity(a.cm, d, directory_block,
                                Entity_file(name, 0, a.ret)),
                   Entity_file(name, 0, a.ret))

create_file(cm, d, directory_block, name) ==
    create_file_in(allocate_blocks(cm, 1), d, directory_block, name)

\* The while loop of get_entity_offset: both slices panic past the data.
RECURSIVE get_entity_offset_loop(_, _, _)
get_entity_offset_record(data, raw_data, index, hsize) ==
    IF hsize = 0
    THEN [ok |-> TRUE, ret |-> None]
    ELSE IF index + Len(raw_data) > Len(data)
         THEN [ok |-> FALSE, ret |-> None]
         ELSE IF Slice(data, index, index + Len(raw_data)) = raw_data
              THEN [ok |-> TRUE, ret |-> index]
              ELSE get_entity_offset_loop(data, raw_data, index + hsize + 4)

get_entity_offset_loop(data, raw_data, index) ==
    IF index >= Len(data)
    THEN [ok |-> TRUE, ret |-> None]
    ELSE IF index + 4 > Len(data)
         THEN [ok |-> FALSE, ret |-> None]
         ELSE get_entity_offset_record(data, raw_data, index,
                                       from_le_bytes(data, index, 4))

get_entity_offset_in(data, raw_data) ==
    IF ~data.ok
    THEN [ok |-> FALSE, ret |-> None]
    ELSE get_entity_offset_loop(data.data, raw_data, 0)

\* get_entity_offset(directory_block, entity): [ok, ret]
get_entity_offset(cm, d, directory_block, entity) ==
    get_entity_offset_in(read_chain_data_vec(cm, d, directory_block),
                         as_raw(entity))

div_ceil(a, b) == (a + b - 1) \div b

\* write_contents_by_entity: the chain is resized and the buffer written
\* before the record is looked up; get_entity_offset(..).unwrap() panics
\* when no record has the bytes of `entity`.
write_contents_update(cm, d, directory_block, new_entity, ent_offset) ==
    IF ~ent_offset.ok \/ ent_offset.ret = None
    THEN Panic(cm, d)
    ELSE Written(cm, write_blocks_data(cm, d, directory_block,
                         as_raw(new_entity), ent_offset.ret))

write_contents_written(cm, w, directory_block, entity, offset_end) ==
    IF ~w.ok
    THEN Panic(cm, w.dz)
    ELSE write_contents_update(cm, w.dz, directory_block,
             [entity EXCEPT !.size = offset_end],
             get_entity_offset(cm, w.dz, directory_block, entity))

write_contents_resized(s, d, directory_block, entity, data, offset) ==
    IF ~s.ok
    THEN Panic(s.cm, d)
    ELSE write_contents_written(s.cm,
             write_blocks_data(s.cm, d, entity.start_block, data, offset),
             directory_block, entity, Len(data) + offset)

write_contents_by_entity(cm, d, directory_block, entity, data, offset) ==
    write_contents_resized(
        set_chain_size(cm, entity.start_block,
                       div_ceil(Len(data) + offset, BlockSize)),
        d, directory_block, entity, data, offset)

\* read_contents_by_entity(entity, data, offset): [ok, data]
read_contents_by_entity(cm, d, entity, data, offset) ==
    read_blocks_data(cm, d, entity.start_block, data, offset)

\* data.copy_within(off_end.., off)
copy_within(data, off_end, off) ==
    [k \in 1 .. Len(data) |->
        IF k - 1 >= off /\ k - 1 < off + (Len(data) - off_end)
        THEN data[k + (off_end - off)]
        ELSE data[k]]

delete_file_freed(f, d, directory_block, data) ==
    IF ~f.ok
    THEN Panic(f.cm, d)
    ELSE Written(f.cm, write_blocks_data(f.cm, d, directory_block, data, 0))

delete_file_at(cm, d, directory_block, entity, data, off) ==
    IF ~data.ok \/ ~off.ok \/ off.ret = None
    THEN Panic(cm, d)
    ELSE IF off.ret + fact_size(entity) > Len(data.data)
         THEN Panic(cm, d)
         ELSE delete_file_freed(free_blocks(cm, entity.start_block), d,
                  directory_block,
                  copy_within(data.data, off.ret + fact_size(entity), off.ret))

delete_file(cm, d, directory_block, entity) ==
    IF is_directory(entity)
    THEN Done(cm, d, None)
    ELSE delete_file_at(cm, d, directory_block, entity,
             read_chain_data_vec(cm, d, directory_block),
             get_entity_offset(cm, d, directory_block, entity))

----------------------------------------------------------------------------
(* The state after format on a zero-filled device: the data zone zeroed,   *)
(* every chainmap entry written 0, entry 0 set END, then                   *)
(* create_root_directory.                                                  *)

ZeroDevice == [b \in DzBlocks |-> Zeros(BlockSize)]

\* bootsector.rs.  The boot code (static/bootcode.bin, assembled by
\* build.rs) is an opaque 512-byte blob: a short jump in bytes 0..3.
SectorSize == 512
FILESYSTEM_CODENAME == <<78, 111, 99, 116, 70, 83, 95, 95>>

BOOTCODE == [i \in 1 .. 512 |-> IF i = 1 THEN 235 ELSE IF i = 2 THEN 27
                                ELSE IF i = 3 THEN 144 ELSE 0]

DeviceSize == BlockMapCount * BlockSize

BootSector_with_data(device_size, sector_size, block_size) ==
    [filesystem_codename |-> FILESYSTEM_CODENAME,
     sector_size |-> sector_size,
     block_size |-> block_size,
     block_map_count |-> device_size \div block_size,
     first_root_entity_block |->
         (sector_size + (device_size \div block_size)) \div sector_size]

\* The packed struct is 26 bytes, copied over the boot code from byte 3.
BootSector_as_raw(b) ==
    copy_from_slice(BOOTCODE, 3,
        b.filesystem_codename \o to_le_bytes(b.sector_size, 2)
            \o to_le_bytes(b.block_size, 4)
            \o to_le_bytes(b.block_map_count, 4)
            \o to_le_bytes(b.first_root_entity_block, 8))

\* A decoder that takes the struct from byte 0 of the sector.
BootSector_from_raw_at_0(data) ==
    [filesystem_codename |-> Slice(data, 0, 8),
     sector_size |-> from_le_bytes(data, 8, 2),
     block_size |-> from_le_bytes(data, 10, 4),
     block_map_count |-> from_le_bytes(data, 14, 4),
     first_root_entity_block |-> from_le_bytes(data, 18, 8)]

BootSector_from_raw(data) ==
    [filesystem_codename |-> Slice(data, 3, 11),
     sector_size |-> from_le_bytes(data, 11, 2),
     block_size |-> from_le_bytes(data, 13, 4),
     block_map_count |-> from_le_bytes(data, 17, 4),
     first_root_entity_block |-> from_le_bytes(data, 21, 8)]

\* NoctFS::new: the 512 bytes at offset 0 are read and decoded; nothing is
\* written.
NoctFS_new(sect) ==
    IF BootSector_from_raw(sect).filesystem_codename # FILESYSTEM_CODENAME
    THEN "SignatureNotValid"
    ELSE "Ok"

\* The sector format writes: with_data, then first_root_entity_block = 1.
format_sector ==
    BootSector_as_raw(
        [BootSector_with_data(DeviceSize, SectorSize, BlockSize)
             EXCEPT !.first_root_entity_block = 1])

create_root_directory_in(a, d) ==
    IF ~a.ok \/ a.ret = None
    THEN Panic(a.cm, d)
    ELSE returning(
             then_write_entity(
                 write_entity(a.cm, d, a.ret, Entity_directory(DotName, 0, a.ret)),
                 a.ret, Entity_directory(DotDotName, 0, a.ret)),
             a.ret)

create_root_directory(cm, d) == create_root_directory_in(allocate_blocks(cm, 1), d)

\* "Overwrite first 1MB": 2^20 zero bytes written from data-zone block 1.
FormatZeroLen == 1048576

\* A format that leaves the data zone as it finds it.
zero_nothing(d) == d

zero_first_mb(d) ==
    [b \in DzBlocks |->
        [i \in 1 .. BlockSize |->
            IF /\ b * BlockSize + i - 1 >= datazone_offset_with_block(1)
               /\ b * BlockSize + i - 1
                      < datazone_offset_with_block(1) + FormatZeroLen
            THEN 0
            ELSE d[b][i]]]

RECURSIVE clear_chainmap(_, _)
clear_chainmap(cm, i) ==
    IF i >= BlockMapCount THEN cm ELSE clear_chainmap(write_block(cm, i, 0), i + 1)

\* format on a device holding chainmap cm and data zone d.
format_device(cm, d) ==
    create_root_directory(write_block(clear_chainmap(cm, 0), 0, END),
                          zero_first_mb(d))

format ==
    create_root_directory(write_block(Table([b \in Blocks |-> 0]), 0, END),
                          ZeroDevice)

\* get_root_entity: start_block 1.
RootBlock == 1

----------------------------------------------------------------------------
(* What a caller can name: directories and file handles                    *)

\* The records list_directory has collected (all of them when it succeeds).
Records(cm, d, directory_block) == list_directory(cm, d, directory_block).ents

SeqToSet(r) == {r[i] : i \in 1 .. Len(r)}

RecordSet(cm, d, directory_block) == SeqToSet(Records(cm, d, directory_block))

ChildDirs(cm, d, directory_block) ==
    {e.start_block : e \in {x \in RecordSet(cm, d, directory_block) :
                               is_directory(x) /\ x.name # DotName
                               /\ x.name # DotDotName}}

RECURSIVE DirsWithin(_, _, _, _)
DirsGrown(cm, d, known, more, depth) ==
    IF more = known THEN known ELSE DirsWithin(cm, d, more, depth - 1)

DirsWithin(cm, d, known, depth) ==
    IF depth = 0
    THEN known
    ELSE DirsGrown(cm, d, known,
             known \cup UNION {ChildDirs(cm, d, k) : k \in known}, depth)

\* The directories reachable from the root by listing.
Dirs(cm, d) == DirsWithin(cm, d, {RootBlock}, BlockMapCount)

FileRecords(cm, d, directory_block) ==
    {e \in RecordSet(cm, d, directory_block) : is_file(e)}

\* The handles a caller may hold for the files of a directory: the record
\* as listed now, and the entity as create_file returned it (size 0).
HandlesOf(files) == files \cup {[e EXCEPT !.size = 0] : e \in files}

Handles(cm, d, directory_block) == HandlesOf(FileRecords(cm, d, directory_block))

----------------------------------------------------------------------------
(* Inputs                                                                  *)

Names == {<<97>>}

\* A buffer of n distinct non-zero bytes.
Pattern(n) == [i \in 1 .. n |-> 1 + ((i - 1) % 100)]

\* A buffer that happens to hold the bytes of a directory record.
RecordBytes == as_raw(Entity_file(<<103>>, 0, 3))

\* <<buffer, offset>> of the writes.
Writes ==
    { <<Pattern(10), 10>>, <<Pattern(BlockSize + 6), 0>>, <<RecordBytes, 0>>,
      <<Pattern(0), 0>>, <<Pattern(10), BlockSize>> }

\* <<offset, length>> of the reads.
Reads == { <<0, 10>>, <<10, 10>>, <<0, BlockSize + 6>> }

AllocStarts == 1 .. (BlockMapCount - 1)

----------------------------------------------------------------------------
(* State machine                                                           *)

NoMap == Table([b \in Blocks |-> 0])

NoDevice == [sector |-> <<>>, cm |-> <<>>, dz |-> <<>>]

NoCreated == [pure |-> TRUE, of |-> Table([b \in Blocks |-> <<>>])]
Mixed == [pure |-> FALSE, of |-> Table([b \in Blocks |-> <<>>])]

NoLast ==
    [op |-> "format", dir |-> 0, count |-> 0, ret |-> None, pre |-> NoMap,
     ent |-> NoEntity, buf |-> <<>>, offset |-> 0, roff |-> 0, out |-> <<>>,
     fresh |-> FALSE, res |-> "", prev |-> "", dev |-> NoDevice,
     device_size |-> 0]

Init ==
    /\ chainmap = format.cm
    /\ dz = format.dz
    /\ crashed = ~format.ok
    /\ last = NoLast
    /\ steps = 0
    /\ sector = format_sector
    /\ created = NoCreated

\* The device as it is now: a call records it in last.dev before it acts.
Device == [sector |-> sector, cm |-> chainmap, dz |-> dz]

\* The state after an operation that answered r; l describes the call.
Apply(r, l) ==
    /\ chainmap' = r.cm
    /\ dz' = r.dz
    /\ crashed' = ~r.ok
    /\ last' = l
    /\ steps' = steps + 1
    /\ created' = Mixed
    /\ UNCHANGED sector

\* The same for an operation that answers an entity.
ApplyCreate(r, l) ==
    /\ chainmap' = r.cm
    /\ dz' = r.dz
    /\ crashed' = ~r.ok
    /\ last' = [l EXCEPT !.ent = IF r.ok THEN r.ret ELSE NoEntity]
    /\ steps' = steps + 1
    /\ created' = IF created.pure /\ r.ok
                  THEN [created EXCEPT !.of[l.dir] = Append(@, r.ret)]
                  ELSE created
    /\ UNCHANGED sector

CreateFile(dir, name) ==
    /\ ~crashed /\ steps < MaxSteps
    /\ ApplyCreate(create_file(chainmap, dz, dir, name),
                   [NoLast EXCEPT !.op = "create_file", !.dir = dir])

CreateDirectory(dir, name) ==
    /\ ~crashed /\ steps < MaxSteps
    /\ ApplyCreate(create_directory(chainmap, dz, dir, name),
                   [NoLast EXCEPT !.op = "create_directory", !.dir = dir])

WriteFile(dir, entity, buf, offset) ==
    /\ ~crashed /\ steps < MaxSteps
    /\ Apply(write_contents_by_entity(chainmap, dz, dir, entity, buf, offset),
             [NoLast EXCEPT !.op = "write_file", !.dir = dir, !.ent = entity,
                            !.buf = buf, !.offset = offset, !.dev = Device])

\* last.fresh: the entity deleted is the one the create_file just before
\* returned, for the same directory.
DeleteFile(dir, entity) ==
    /\ ~crashed /\ steps < MaxSteps
    /\ Apply(delete_file(chainmap, dz, dir, entity),
             [NoLast EXCEPT !.op = "delete_file", !.dir = dir, !.ent = entity,
                            !.dev = Device,
                            !.fresh = /\ last.op = "create_file"
                                      /\ last.dir = dir
                                      /\ last.ent = entity])

\* The state after a read that answered r.
ApplyRead(r, roff) ==
    /\ crashed' = ~r.ok
    /\ last' = [last EXCEPT !.op = "read_file", !.roff = roff, !.out = r.data]
    /\ UNCHANGED <<chainmap, dz, sector, steps, created>>

\* read_file right after a write_file, into a zeroed buffer of n bytes.
ReadFile(roff, n) ==
    /\ ~crashed /\ last.op = "write_file"
    /\ ApplyRead(read_contents_by_entity(chainmap, dz, last.ent, Zeros(n), roff),
                 roff)

Next ==
    \/ \E dir \in Dirs(chainmap, dz), name \in Names : CreateFile(dir, name)
    \/ \E dir \in Dirs(chainmap, dz), name \in Names : CreateDirectory(dir, name)
    \/ \E dir \in Dirs(chainmap, dz) :
           \E entity \in Handles(chainmap, dz, dir), w \in Writes :
               WriteFile(dir, entity, w[1], w[2])
    \/ \E dir \in Dirs(chainmap, dz) :
           \E entity \in Handles(chainmap, dz, dir) : DeleteFile(dir, entity)
    \/ \E r \in Reads : ReadFile(r[1], r[2])

Spec == Init /\ [][Next]_vars

----------------------------------------------------------------------------
(* The allocator operations called directly                                *)

ApplyAlloc(r, l) ==
    /\ chainmap' = r.cm
    /\ crashed' = ~r.ok
    /\ last' = [l EXCEPT !.pre = chainmap]
    /\ steps' = steps + 1
    /\ UNCHANGED <<dz, sector, created>>

\* The same for allocate_blocks, which answers a block.
ApplyAllocate(r, l) ==
    /\ chainmap' = r.cm
    /\ crashed' = ~r.ok
    /\ last' = [l EXCEPT !.pre = chainmap, !.ret = r.ret]
    /\ steps' = steps + 1
    /\ UNCHANGED <<dz, sector, created>>

AllocateBlocks(count) ==
    /\ ~crashed /\ steps < MaxAllocSteps
    /\ ApplyAllocate(allocate_blocks(chainmap, count),
                     [NoLast EXCEPT !.op = "allocate_blocks", !.count = count])

FreeBlocks(start) ==
    /\ ~crashed /\ steps < MaxAllocSteps
    /\ ApplyAlloc(free_blocks(chainmap, start),
                  [NoLast EXCEPT !.op = "free_blocks", !.dir = start])

ExtendChainBy(start, count) ==
    /\ ~crashed /\ steps < MaxAllocSteps
    /\ ApplyAlloc(extend_chain_by(chainmap, start, count),
                  [NoLast EXCEPT !.op = "extend_chain_by", !.dir = start,
                                 !.count = count])

ShrinkChainBy(start, count) ==
    /\ ~crashed /\ steps < MaxAllocSteps
    /\ ApplyAlloc(shrink_chain_by(chainmap, start, count),
                  [NoLast EXCEPT !.op = "shrink_chain_by", !.dir = start,
                                 !.count = count])

SetChainSize(start, count) ==
    /\ ~crashed /\ steps < MaxAllocSteps
    /\ ApplyAlloc(set_chain_size(chainmap, start, count),
                  [NoLast EXCEPT !.op = "set_chain_size", !.dir = start,
                                 !.count = count])

NextAlloc ==
    \/ \E count \in 0 .. MaxCount : AllocateBlocks(count)
    \/ \E start \in {0} \cup AllocStarts : FreeBlocks(start)
    \/ \E start \in AllocStarts, count \in 0 .. MaxCount :
           ExtendChainBy(start, count)
    \/ \E start \in AllocStarts, count \in 0 .. MaxCount :
           ShrinkChainBy(start, count)
    \/ \E start \in AllocStarts, count \in 0 .. MaxCount :
           SetChainSize(start, count)

SpecAlloc == Init /\ [][NextAlloc]_vars

----------------------------------------------------------------------------
(* Properties of the allocator (under SpecAlloc).  last.pre is the         *)
(* chainmap before the call, last.dir its start block, last.count its      *)
(* count.                                                                  *)

\* The free blocks of a chainmap.
Free(cm) == {b \in Blocks : cm[b] = 0}

Lowest(S) == CHOOSE m \in S : \A x \in S : m <= x

\* The n lowest elements of S in ascending order.
RECURSIVE LowestSeq(_, _)
LowestSeq(S, n) ==
    IF n = 0 THEN <<>> ELSE <<Lowest(S)>> \o LowestSeq(S \ {Lowest(S)}, n - 1)

ChainSet(cm, start_block) ==
    {get_chain(cm, start_block).blocks[i] :
        i \in 1 .. Len(get_chain(cm, start_block).blocks)}

\* start heads an allocated chain of cm: the walk from it ends at an END
\* entry, passes no free block and stays clear of block 0.
Allocated(cm, start_block) ==
    /\ start_block \in Blocks \ {0}
    /\ get_chain(cm, start_block).ok
    /\ \A b \in ChainSet(cm, start_block) : b # 0 /\ cm[b] # 0
    /\ \E b \in ChainSet(cm, start_block) : cm[b] = END

\* C2: chainmap entry 0 is END in every state the allocator operations
\* reach, whatever start block they are called with, so that find_block
\* never answers block 0.
C2_EntryZeroIsEnd == chainmap[0] = END /\ find_block(chainmap) # 0

\* C4: with at least count >= 1 blocks free, allocate_blocks(count) answers
\* the lowest free block, the chain from it is the count lowest free blocks
\* in ascending order, the last one marked END, and no other entry changes;
\* allocate_blocks(0) answers None and changes nothing.
C4_AllocateLowest ==
    last.op = "allocate_blocks" =>
        /\ last.count = 0 =>
               ~crashed /\ last.ret = None /\ chainmap = last.pre
        /\ (last.count >= 1 /\ Cardinality(Free(last.pre)) >= last.count) =>
               /\ ~crashed
               /\ last.ret = Lowest(Free(last.pre))
               /\ get_chain(chainmap, last.ret).ok
               /\ get_chain(chainmap, last.ret).blocks
                      = LowestSeq(Free(last.pre), last.count)
               /\ chainmap[LowestSeq(Free(last.pre), last.count)[last.count]] = END
               /\ \A b \in Blocks \ ChainSet(chainmap, last.ret) :
                      chainmap[b] = last.pre[b]

\* C4's case: an allocation of several blocks that skips over an allocated
\* block and leaves a free block behind, block 0 being reserved.
C4_Witness ==
    /\ last.op = "allocate_blocks" /\ last.count >= 2 /\ ~crashed
    /\ last.pre[0] = END
    /\ Cardinality(Free(last.pre)) > last.count
    /\ \E b \in Blocks : /\ b > last.ret /\ last.pre[b] # 0
                         /\ \E c \in ChainSet(chainmap, last.ret) : c > b

\* C5: allocate_blocks(count) with fewer than count blocks free answers
\* None without a panic and leaves the chainmap as it was.
C5_AllocateFailureReported ==
    (last.op = "allocate_blocks" /\ last.count > Cardinality(Free(last.pre))) =>
        ~crashed /\ last.ret = None /\ chainmap = last.pre

\* C6: free_blocks(start) on the head of an allocated chain zeroes the
\* entry of every block of the chain and leaves every other entry as it
\* was; free_blocks(0) changes nothing.
C6_FreeExactlyChain ==
    last.op = "free_blocks" =>
        /\ last.dir = 0 => ~crashed /\ chainmap = last.pre
        /\ Allocated(last.pre, last.dir) =>
               /\ ~crashed
               /\ \A b \in Blocks :
                      chainmap[b] = IF b \in ChainSet(last.pre, last.dir)
                                    THEN 0 ELSE last.pre[b]

\* C6's case: a chain of several blocks is freed while another chain of
\* several blocks stays allocated.
C6_Witness ==
    /\ last.op = "free_blocks" /\ ~crashed
    /\ Allocated(last.pre, last.dir)
    /\ Cardinality(ChainSet(last.pre, last.dir)) >= 2
    /\ \E b \in Blocks \ {0} :
           /\ Allocated(chainmap, b)
           /\ Cardinality(ChainSet(chainmap, b)) >= 2

\* C7: set_chain_size(start, count) on the head of an allocated chain
\* leaves a chain of exactly count blocks, and leaves the chainmap as it
\* was when the chain already had count blocks.
C7_SetChainSizeExact ==
    (last.op = "set_chain_size" /\ Allocated(last.pre, last.dir)) =>
        /\ ~crashed
        /\ get_chain(chainmap, last.dir).ok
        /\ Len(get_chain(chainmap, last.dir).blocks) = last.count
        /\ Len(get_chain(last.pre, last.dir).blocks) = last.count =>
               chainmap = last.pre

----------------------------------------------------------------------------
(* Properties of the file system (under Spec)                              *)

Max(a, b) == IF a > b THEN a ELSE b

\* A record other than the "." and ".." of a directory.
IsEntry(e) == e.name # DotName /\ e.name # DotDotName

\* The entries among the records recs of directory k, each with its place.
DirEntries(k, recs) ==
    {[dir |-> k, pos |-> i, e |-> recs[i]] :
        i \in {j \in 1 .. Len(recs) : IsEntry(recs[j])}}

\* The live entities: the root (get_root_entity) and every entry of every
\* directory reachable from the root.
Live(cm, d) ==
    {[dir |-> 0, pos |-> 0, e |-> Entity_directory(<<47>>, 0, RootBlock)]}
    \cup UNION {DirEntries(k, Records(cm, d, k)) : k \in Dirs(cm, d)}

NoRepeat(blocks) ==
    \A i, j \in 1 .. Len(blocks) : i # j => blocks[i] # blocks[j]

\* The walk c ends, visits no block twice, stays below block_map_count and
\* clear of block 0, and its last block is marked END.
WellFormedWalk(cm, c) ==
    /\ c.ok
    /\ Len(c.blocks) >= 1
    /\ NoRepeat(c.blocks)
    /\ \A i \in 1 .. Len(c.blocks) : c.blocks[i] \in Blocks \ {0}
    /\ get_block(cm, c.blocks[Len(c.blocks)]) = END

WellFormed(cm, start_block) == WellFormedWalk(cm, get_chain(cm, start_block))

Disjoint(cm, live) ==
    \A x, y \in live :
        x # y => ChainSet(cm, x.e.start_block)
                     \cap ChainSet(cm, y.e.start_block) = {}

AllWellFormed(cm, live) == \A x \in live : WellFormed(cm, x.e.start_block)

FileChainLengths(cm, live) ==
    \A x \in live :
        is_file(x.e) =>
            Len(get_chain(cm, x.e.start_block).blocks)
                = Max(1, div_ceil(x.e.size, BlockSize))

\* C1: in every state reached by create_file, create_directory, write_file
\* and delete_file, the chains of two different live entities share no
\* block.
C1_ChainsDisjoint == ~crashed => Disjoint(chainmap, Live(chainmap, dz))

\* C3: in every reachable state the walk from the start block of every live
\* entity ends, visits no block twice, returns only blocks below
\* block_map_count other than block 0, and ends at a block marked END.
C3_ChainsWellFormed == ~crashed => AllWellFormed(chainmap, Live(chainmap, dz))

\* C10: in every reachable state the chain of every FILE record has
\* ceil(size / block_size) blocks, and at least 1.
C10_FileChainLength == ~crashed => FileChainLengths(chainmap, Live(chainmap, dz))

\* C8: a read_file after a write_file, of a range inside the written
\* region, fills the buffer with exactly the written bytes of that range.
C8_RoundTrip ==
    ( /\ last.op = "read_file"
      /\ last.offset <= last.roff
      /\ last.roff + Len(last.out) <= last.offset + Len(last.buf) ) =>
        /\ ~crashed
        /\ last.out = Slice(last.buf, last.roff - last.offset,
                            last.roff - last.offset + Len(last.out))

\* C9: after a write_file of a non-empty buffer, with whatever entity value
\* the caller holds for the file, the file's record in the directory stores
\* the start block and size = offset + length of the write.
C9_RecordUpdated ==
    (last.op = "write_file" /\ Len(last.buf) > 0) =>
        \E e \in FileRecords(chainmap, dz, last.dir) :
            /\ e.name = last.ent.name
            /\ e.start_block = last.ent.start_block
            /\ e.size = last.offset + Len(last.buf)

----------------------------------------------------------------------------
(* Properties of the directory engine                                      *)

HasRecord(recs, entity) ==
    \E i \in 1 .. Len(recs) :
        recs[i].name = entity.name /\ recs[i].start_block = entity.start_block

Unlisted(listing, entity) == listing.ok /\ ~HasRecord(listing.ents, entity)

\* C11: create_file followed at once by delete_file of the entity it
\* returned leaves the file's block free again, as it was before the
\* create_file, and the directory listing without the file's record.
C11_CreateDeleteRestores ==
    (last.op = "delete_file" /\ last.fresh) =>
        /\ ~crashed
        /\ chainmap[last.ent.start_block] = 0
        /\ Unlisted(list_directory(chainmap, dz, last.dir), last.ent)

----------------------------------------------------------------------------
(* Directories filled by create calls only, with names of several lengths  *)
(* (records of 33, 34 and 32 + LongNameLen bytes).                         *)

LongNameLen == 214
LongName == [i \in 1 .. LongNameLen |-> 98]
DirNames == {<<97>>, <<97, 98>>, LongName}

NextDir ==
    \/ \E dir \in Dirs(chainmap, dz), name \in DirNames : CreateFile(dir, name)
    \/ \E dir \in Dirs(chainmap, dz), name \in DirNames :
           CreateDirectory(dir, name)

SpecDir == Init /\ [][NextDir]_vars

\* The directories the create calls have made, and the root.
CreatedDirs(made) ==
    {RootBlock} \cup
        UNION {{made[b][i].start_block : i \in {j \in 1 .. Len(made[b]) :
                                                   is_directory(made[b][j])}} :
               b \in Blocks}

ListsCreated(listing, made) ==
    /\ listing.ok
    /\ Len(listing.ents) = 2 + Len(made)
    /\ listing.ents[1].name = DotName
    /\ listing.ents[2].name = DotDotName
    /\ \A i \in 1 .. Len(made) :
           /\ listing.ents[2 + i].name = made[i].name
           /\ listing.ents[2 + i].start_block = made[i].start_block

\* C12: after any number of create_file/create_directory calls,
\* list_directory of a directory returns "." and ".." and then exactly the
\* entities created in it, in creation order, with their names and start
\* blocks.
C12_CreatedInOrder ==
    (~crashed /\ created.pure) =>
        \A dir \in CreatedDirs(created.of) :
            ListsCreated(list_directory(chainmap, dz, dir), created.of[dir])

\* C13: right after create_directory(parent, name) has returned child,
\* list_directory(child.start_block) returns exactly "." (start block the
\* child's) and ".." (start block the parent's), both directories, also
\* when the child's block was the data block of a deleted file before.
C13_NewDirectoryListing ==
    (last.op = "create_directory" /\ ~crashed) =>
        list_directory(chainmap, dz, last.ent.start_block) =
            [ok |-> TRUE,
             ents |-> <<Entity_directory(DotName, 0, last.ent.start_block),
                        Entity_directory(DotDotName, 0, last.dir)>>]

\* The bytes from index on are complete records followed by four zero
\* bytes inside the data, or complete records up to its very end.
RECURSIVE StreamValid(_, _)
StreamValidAfter(data, index, size) ==
    IF size = 0
    THEN TRUE
    ELSE IF index + 4 + size > Len(data)
         THEN FALSE
         ELSE StreamValid(data, index + 4 + size)

StreamValid(data, index) ==
    IF index = Len(data)
    THEN TRUE
    ELSE IF index + 4 > Len(data)
         THEN FALSE
         ELSE StreamValidAfter(data, index, from_le_bytes(data, index, 4))

DirectoryValid(stream, listing) ==
    stream.ok /\ StreamValid(stream.data, 0) /\ listing.ok

\* C14: the byte stream of every directory is a sequence of complete
\* records followed by a 4-byte zero terminator inside the chain, or the
\* records fill the chain exactly, so list_directory never reads a header
\* past the end of the chain.
C14_DirectoryStreamTerminated ==
    ~crashed =>
        \A dir \in Dirs(chainmap, dz) :
            DirectoryValid(read_chain_data_vec(chainmap, dz, dir),
                           list_directory(chainmap, dz, dir))

----------------------------------------------------------------------------
(* format and NoctFS::new on devices with previous contents                *)

MaxDeviceSteps == 2

\* First sectors: a formatted one, the bare boot code, all zeros, the magic
\* at byte 0 instead of byte 3, and a formatted one with the k-th byte of
\* the magic changed.
Sectors == 1 .. 12

OldSector(k) ==
    CASE k = 1 -> format_sector
      [] k = 2 -> BOOTCODE
      [] k = 3 -> Zeros(512)
      [] k = 4 -> copy_from_slice(Zeros(512), 0, FILESYSTEM_CODENAME)
      [] OTHER -> [Table(format_sector) EXCEPT ![k - 1] = 0]

\* Chainmaps and data zones a device may hold before format: those of a
\* fresh file system, of one with a written file, and foreign contents.
UsedDevice ==
    write_contents_by_entity(create_file(format.cm, format.dz, RootBlock, <<97>>).cm,
        create_file(format.cm, format.dz, RootBlock, <<97>>).dz, RootBlock,
        create_file(format.cm, format.dz, RootBlock, <<97>>).ret,
        Pattern(BlockSize + 6), 0)

OldMaps == 1 .. 4

OldMap(k) ==
    CASE k = 1 -> format.cm
      [] k = 2 -> UsedDevice.cm
      [] k = 3 -> Table([b \in Blocks |-> END])
      [] OTHER -> Table([b \in Blocks |-> 3])

OldZones == 1 .. 3

OldZone(k) ==
    CASE k = 1 -> format.dz
      [] k = 2 -> UsedDevice.dz
      [] OTHER -> [b \in DzBlocks |-> [i \in 1 .. BlockSize |-> 255]]

InitDevice ==
    /\ \E k \in Sectors : sector = OldSector(k)
    /\ \E k \in OldMaps : chainmap = OldMap(k)
    /\ \E k \in OldZones : dz = OldZone(k)
    /\ crashed = FALSE
    /\ last = [NoLast EXCEPT !.op = "device"]
    /\ steps = 0
    /\ created = NoCreated

\* NoctFS::format: the sector is written, NoctFS::new(device).unwrap()
\* reads it back, then the data zone and the chainmap are written.
Format ==
    /\ steps < MaxDeviceSteps
    /\ sector' = format_sector
    /\ chainmap' = format_device(chainmap, dz).cm
    /\ dz' = format_device(chainmap, dz).dz
    /\ crashed' = (~format_device(chainmap, dz).ok \/ NoctFS_new(format_sector) # "Ok")
    /\ last' = [NoLast EXCEPT !.op = "format", !.prev = last.op, !.dev = Device]
    /\ steps' = steps + 1
    /\ created' = NoCreated

Mount ==
    /\ ~crashed /\ steps < MaxDeviceSteps
    /\ last' = [NoLast EXCEPT !.op = "new", !.prev = last.op, !.dev = Device,
                              !.res = NoctFS_new(sector)]
    /\ steps' = steps + 1
    /\ UNCHANGED <<chainmap, dz, sector, crashed, created>>

NextDevice == Format \/ Mount

SpecDevice == InitDevice /\ [][NextDevice]_vars

\* C15: format, whatever the device held before, leaves chainmap entries 0
\* and 1 END and every other entry 0, the root pointer of the superblock 1,
\* and a root directory that lists exactly "." and "..", both with start
\* block 1.
C15_FormatResult ==
    last.op = "format" =>
        /\ ~crashed
        /\ chainmap = [b \in Blocks |-> IF b \in {0, 1} THEN END ELSE 0]
        /\ from_le_bytes(sector, 21, 8) = 1
        /\ list_directory(chainmap, dz, 1) =
               [ok |-> TRUE,
                ents |-> <<Entity_directory(DotName, 0, 1),
                           Entity_directory(DotDotName, 0, 1)>>]

\* format has run on a device whose chainmap and data zone were in use.
C15_Witness ==
    /\ last.op = "format" /\ ~crashed
    /\ last.dev.cm[1] = 3
    /\ last.dev.dz[1][1] = 255
    /\ last.dev.sector = Zeros(512)

HasMagic(sect) == SubSeq(sect, 4, 11) = <<78, 111, 99, 116, 70, 83, 95, 95>>

\* C16: NoctFS::new right after format succeeds; on a device whose first
\* sector does not hold "NoctFS__" at bytes 3..11 it fails with the
\* bad-signature error; in both cases the device is left as it was.
C16_MountChecksMagic ==
    last.op = "new" =>
        /\ last.prev = "format" => last.res = "Ok"
        /\ ~HasMagic(last.dev.sector) => last.res = "SignatureNotValid"
        /\ Device = last.dev

\* A mount of an all-zero first sector has been refused.
C16_Witness ==
    /\ last.op = "new"
    /\ last.dev.sector = Zeros(512)
    /\ last.res = "SignatureNotValid"
    /\ sector = Zeros(512)

----------------------------------------------------------------------------
(* Chain I/O called directly on allocated chains                           *)

\* <<buffer, offset>> of the direct writes.
IOWrites ==
    {<<Pattern(10), 0>>, <<Pattern(BlockSize), 0>>, <<Pattern(BlockSize + 6), 0>>,
     <<Pattern(10), BlockSize>>, <<Pattern(BlockSize + 6), 10>>}

\* Number of calls in a run that ends with direct chain I/O.
MaxIOSteps == 3

WriteBlocksData(start, buf, offset) ==
    /\ ~crashed /\ steps < MaxIOSteps
    /\ dz' = write_blocks_data(chainmap, dz, start, buf, offset).dz
    /\ crashed' = ~write_blocks_data(chainmap, dz, start, buf, offset).ok
    /\ last' = [NoLast EXCEPT !.op = "write_blocks_data", !.dir = start,
                              !.buf = buf, !.offset = offset, !.dev = Device]
    /\ steps' = steps + 1
    /\ UNCHANGED <<chainmap, sector, created>>

NextIO ==
    \/ \E count \in 1 .. MaxCount : AllocateBlocks(count)
    \/ \E start \in AllocStarts : ExtendChainBy(start, 1)
    \/ \E start \in AllocStarts, w \in IOWrites : WriteBlocksData(start, w[1], w[2])

SpecIO == Init /\ [][NextIO]_vars

\* The byte stream of a chain: its blocks' bytes in chain order.
RECURSIVE ChainBytes(_, _)
ChainBytes(d, blocks) ==
    IF blocks = <<>> THEN <<>> ELSE d[Head(blocks)] \o ChainBytes(d, Tail(blocks))

\* write_blocks_data(start, buf, offset) turned the device before into
\* (cm, d): the chain's stream has buf at offset .. offset + len, every
\* other byte of it and every block outside the chain is as before.
WroteExactly(cm, d, before, blocks, blockset, buf, offset) ==
    /\ ChainBytes(d, blocks) = copy_from_slice(ChainBytes(before, blocks), offset, buf)
    /\ \A b \in DzBlocks \ blockset : d[b] = before[b]

\* C17: write_blocks_data(start, buf, offset) on a chain whose capacity is
\* at least offset + len completes and changes exactly the bytes
\* offset .. offset + len of the chain's byte stream to buf, nothing outside
\* the chain, also when the chain has more blocks than the buffer needs.
C17_WriteExactRange ==
    (/\ last.op = "write_blocks_data"
     /\ Allocated(chainmap, last.dir)
     /\ Len(get_chain(chainmap, last.dir).blocks) * BlockSize
            >= last.offset + Len(last.buf)) =>
        /\ ~crashed
        /\ WroteExactly(chainmap, dz, last.dev.dz,
               get_chain(chainmap, last.dir).blocks, ChainSet(chainmap, last.dir),
               last.buf, last.offset)

----------------------------------------------------------------------------
(* Growing and shrinking chains (under SpecAlloc)                          *)

\* The chainmap pre with the last k blocks of the chain `blocks` freed and
\* the block before them, if any, marked END; pre itself when k is 0 or
\* more than the chain's length.
Shrunk(pre, blocks, k) ==
    IF k = 0 \/ k > Len(blocks)
    THEN pre
    ELSE [b \in Blocks |->
             IF \E i \in (Len(blocks) - k + 1) .. Len(blocks) : blocks[i] = b
             THEN 0
             ELSE IF Len(blocks) - k >= 1 /\ blocks[Len(blocks) - k] = b
                  THEN END
                  ELSE pre[b]]

\* C18: on an allocated chain of length L, shrink_chain_by(start, k) with
\* 1 <= k <= L completes, frees the last k blocks, marks the new last block
\* (if any) END and changes nothing else; with k = 0 or k > L it changes
\* nothing.
C18_ShrinkExact ==
    (last.op = "shrink_chain_by" /\ Allocated(last.pre, last.dir)) =>
        /\ ~crashed
        /\ chainmap = Shrunk(last.pre, get_chain(last.pre, last.dir).blocks,
                             last.count)

\* walk (the chain of cm from the start block) is the chain C of pre
\* followed by k blocks that were free in pre, and cm differs from pre only
\* at C's last block and at those k blocks.
Extended(pre, cm, C, walk, k) ==
    /\ walk.ok
    /\ Len(walk.blocks) = Len(C) + k
    /\ SubSeq(walk.blocks, 1, Len(C)) = C
    /\ \A i \in (Len(C) + 1) .. (Len(C) + k) : pre[walk.blocks[i]] = 0
    /\ \A b \in Blocks :
           (b # C[Len(C)] /\ \A i \in (Len(C) + 1) .. (Len(C) + k) : walk.blocks[i] # b)
               => cm[b] = pre[b]

\* C19: on an allocated chain C and with at least k >= 1 blocks free,
\* extend_chain_by(start, k) leaves a chain that is C in order followed by
\* k blocks that were free, of length len(C) + k, and changes no entry but
\* that of C's former last block and those of the k new blocks.
C19_ExtendAppends ==
    (/\ last.op = "extend_chain_by" /\ last.count >= 1
     /\ Allocated(last.pre, last.dir)
     /\ Cardinality(Free(last.pre)) >= last.count) =>
        /\ ~crashed
        /\ Extended(last.pre, chainmap, get_chain(last.pre, last.dir).blocks,
                    get_chain(chainmap, last.dir), last.count)

\* A chain of two blocks has been extended by two blocks that are not
\* adjacent to it.
C19_Witness ==
    /\ last.op = "extend_chain_by" /\ last.count = 2 /\ ~crashed
    /\ last.pre[0] = END
    /\ Allocated(last.pre, last.dir)
    /\ Len(get_chain(last.pre, last.dir).blocks) = 2
    /\ get_chain(chainmap, last.dir).blocks[3]
           # get_chain(chainmap, last.dir).blocks[2] + 1

----------------------------------------------------------------------------
(* Room for a new record                                                   *)

\* The offset a (the answer of allocate_for_entity) leaves the record of
\* entity inside the directory's chain as a's chainmap has it.
FitsChain(a, dir, entity) ==
    (a.ok /\ a.ret # None) =>
        a.ret + fact_size(entity)
            <= Len(get_chain(a.cm, dir).blocks) * BlockSize

\* C20: for every directory and every entity to insert, whatever the
\* length of its name, the offset allocate_for_entity returns leaves the
\* whole record inside the directory's chain after growth.
C20_EntityFits ==
    ~crashed =>
        \A dir \in Dirs(chainmap, dz), name \in DirNames :
            FitsChain(allocate_for_entity(chainmap, dz, dir,
                                          Entity_file(name, 0, 0)),
                      dir, Entity_file(name, 0, 0))

----------------------------------------------------------------------------
(* delete_file among other records (under Spec)                            *)

\* The position of the first record of recs equal to entity, 0 if none.
RECURSIVE IndexOf(_, _, _)
IndexOf(recs, entity, i) ==
    IF i > Len(recs)
    THEN 0
    ELSE IF recs[i] = entity THEN i ELSE IndexOf(recs, entity, i + 1)

\* recs without its i-th record.
RemoveAt(recs, i) == SubSeq(recs, 1, i - 1) \o SubSeq(recs, i + 1, Len(recs))

\* What delete_file(dir, entity) owes a caller who listed `before` and
\* found entity in it at position i: the listing `after` is `before`
\* without that record, every block of the file's chain (filechain, walked
\* before the call) is free in cm, and the directory's chain is as long as
\* it was.
DeletedAt(before, after, i, filechain, cm, dirchain, dirchain_after) ==
    /\ ~crashed
    /\ after.ok
    /\ after.ents = RemoveAt(before.ents, i)
    /\ \A k \in 1 .. Len(filechain.blocks) : cm[filechain.blocks[k]] = 0
    /\ Len(dirchain_after.blocks) = Len(dirchain.blocks)

DeletedFrom(before, after, entity, filechain, cm, dirchain, dirchain_after) ==
    (before.ok /\ IndexOf(before.ents, entity, 1) > 0) =>
        DeletedAt(before, after, IndexOf(before.ents, entity, 1), filechain,
                  cm, dirchain, dirchain_after)

\* Directories of several fill levels.  FullName is the name whose record,
\* created in the root directory as format leaves it ("." and ".."),
\* ends at the last byte of the root's chain: allocate_for_entity grows
\* the chain to three blocks while it passes the two records.
FullNameLen ==
    3 * BlockSize - fact_size(Entity_directory(DotName, 0, 0))
                  - fact_size(Entity_directory(DotDotName, 0, 0))
                  - fact_size(Entity_file(<<>>, 0, 0))
FullName == [i \in 1 .. FullNameLen |-> 99]
DeleteNames == {<<97>>, FullName}

NextDelete ==
    \/ \E dir \in Dirs(chainmap, dz), name \in DeleteNames :
           CreateFile(dir, name)
    \/ \E dir \in Dirs(chainmap, dz) : CreateDirectory(dir, <<100>>)
    \/ \E dir \in Dirs(chainmap, dz) :
           \E entity \in FileRecords(chainmap, dz, dir) :
               DeleteFile(dir, entity)

SpecDelete == Init /\ [][NextDelete]_vars

\* C21: delete_file(dir, ri) of a FILE record ri of the listing [r1..rn] of
\* dir completes, leaves list_directory(dir) = [r1..r(i-1), r(i+1)..rn]
\* (same order, same fields), frees the chain of ri and leaves the length
\* of the directory's own chain unchanged.
C21_DeleteKeepsOthers ==
    (last.op = "delete_file" /\ is_file(last.ent)) =>
        DeletedFrom(list_directory(last.dev.cm, last.dev.dz, last.dir),
                    list_directory(chainmap, dz, last.dir),
                    last.ent,
                    get_chain(last.dev.cm, last.ent.start_block),
                    chainmap,
                    get_chain(last.dev.cm, last.dir),
                    get_chain(chainmap, last.dir))

----------------------------------------------------------------------------
(* read_blocks_data called directly on chains (under SpecRead)             *)

\* A buffer of n bytes no write of this model puts on the device.
Marked(n) == [i \in 1 .. n |-> 255]

\* <<buffer length, offset>> of the reads: inside the first block, a buffer
\* shorter than the offset inside the block, across a block boundary, past
\* the end of a chain, starting at and after the end of a chain.
IOReads ==
    { <<10, 0>>, <<5, 10>>, <<BlockSize + 6, 10>>, <<2 * BlockSize + 6, 0>>,
      <<10, 2 * BlockSize>>, <<10, 3 * BlockSize>> }

ReadBlocksData(start, n, offset) ==
    /\ ~crashed /\ steps < MaxIOSteps
    /\ crashed' = ~read_blocks_data(chainmap, dz, start, Marked(n), offset).ok
    /\ last' = [NoLast EXCEPT
                   !.op = "read_blocks_data", !.dir = start,
                   !.buf = Marked(n), !.roff = offset,
                   !.out = read_blocks_data(chainmap, dz, start, Marked(n),
                                            offset).data,
                   !.dev = Device]
    /\ steps' = steps + 1
    /\ UNCHANGED <<chainmap, dz, sector, created>>

NextRead ==
    \/ \E count \in 1 .. MaxCount : AllocateBlocks(count)
    \/ \E start \in AllocStarts :
           WriteBlocksData(start, Pattern(BlockSize + 6), 0)
    \/ \E start \in AllocStarts, r \in IOReads :
           ReadBlocksData(start, r[1], r[2])

SpecRead == Init /\ [][NextRead]_vars

\* The number of bytes of a chain of len blocks from byte offset on.
Covered(len, offset) == Max(0, len * BlockSize - offset)

\* What a read of chain (the walk from start before the call) owes: the
\* bytes of the buffer past the part the chain covers are as they were.
ReadWithin(chain, buf, out, offset) ==
    /\ Len(out) = Len(buf)
    /\ \A k \in 1 .. Len(buf) :
           k > Covered(Len(chain.blocks), offset) => out[k] = buf[k]

\* C22: read_blocks_data(start, buf, offset) on an allocated chain returns
\* success for every offset and buffer length: it leaves buf as it was
\* when offset / block_size exceeds the chain length, fills at most the
\* part of buf the chain covers when the range runs past the chain's end,
\* completes when buf is shorter than offset mod block_size, and leaves
\* the device as it was.
C22_ReadAlwaysSucceeds ==
    (last.op = "read_blocks_data" /\ Allocated(last.dev.cm, last.dir)) =>
        /\ ~crashed
        /\ Device = last.dev
        /\ ReadWithin(get_chain(last.dev.cm, last.dir), last.buf, last.out,
                      last.roff)

----------------------------------------------------------------------------
(* write_file through a handle the directory no longer holds (under Spec)  *)

\* No record of the directory has the bytes of entity: what
\* get_entity_offset answers None for.
Stale(off) == off.ok /\ off.ret = None

\* C23: write_file(dir, entity, ..) with an entity whose record is not
\* found in dir (a handle made stale by an earlier write_file that changed
\* the recorded size) completes, reporting NotFound, and leaves the
\* chainmap and every byte of the data zone as they were.
C23_StaleWriteRefused ==
    (/\ last.op = "write_file"
     /\ Stale(get_entity_offset(last.dev.cm, last.dev.dz, last.dir, last.ent)))
        => (~crashed /\ chainmap = last.dev.cm /\ dz = last.dev.dz)

----------------------------------------------------------------------------
(* write_file among other files (under SpecWrite)                          *)

\* <<buffer, offset>> of the writes: inside the first block, and a block
\* of bytes from inside the first block on.
FileWrites == { <<Pattern(10), 0>>, <<Pattern(BlockSize), 10>> }

FileNames == {<<97>>, <<98>>}

\* Writes go through the records as listed (no stale handle).
NextWrite ==
    \/ \E dir \in Dirs(chainmap, dz), name \in FileNames : CreateFile(dir, name)
    \/ \E dir \in Dirs(chainmap, dz) : CreateDirectory(dir, <<100>>)
    \/ \E dir \in Dirs(chainmap, dz) :
           \E entity \in FileRecords(chainmap, dz, dir), w \in FileWrites :
               WriteFile(dir, entity, w[1], w[2])

SpecWrite == Init /\ [][NextWrite]_vars

\* The record of the same file as entity, whatever size it records.
SameFile(r, entity) ==
    is_file(r) /\ r.name = entity.name /\ r.start_block = entity.start_block

\* A listing with the size of entity's record left out of account.
Masked(listing, entity) ==
    [ok |-> listing.ok,
     ents |-> [i \in 1 .. Len(listing.ents) |->
                  IF SameFile(listing.ents[i], entity)
                  THEN [listing.ents[i] EXCEPT !.size = 0]
                  ELSE listing.ents[i]]]

\* What read_file answers for the whole recorded content of file b.
Content(cm, d, b) == read_contents_by_entity(cm, d, b, Zeros(b.size), 0)

\* The files of the directories dirs, as listed on device (cm, d).
FilesIn(cm, d, dirs) == UNION {FileRecords(cm, d, dir) : dir \in dirs}

\* Device `after` against device `before` for a write to file a of
\* directory adir: every other file reads as before, every listing is as
\* before but for the size a's record holds.
Isolated(before, after, dirs, adir, a) ==
    /\ \A b \in FilesIn(before.cm, before.dz, dirs) :
           ~SameFile(b, a) =>
               Content(after.cm, after.dz, b) = Content(before.cm, before.dz, b)
    /\ \A dir \in dirs :
           IF dir = adir
           THEN Masked(list_directory(after.cm, after.dz, dir), a)
                    = Masked(list_directory(before.cm, before.dz, dir), a)
           ELSE list_directory(after.cm, after.dz, dir)
                    = list_directory(before.cm, before.dz, dir)

\* C24: write_file on a file A, with any offset and buffer, leaves the
\* content read from every other file B (of the same or another
\* directory) as it was, and every directory listing as it was except for
\* the size field of A's own record.
C24_WriteIsolated ==
    last.op = "write_file" =>
        Isolated(last.dev, Device, Dirs(last.dev.cm, last.dev.dz), last.dir,
                 last.ent)

----------------------------------------------------------------------------
(* Blocks in use and blocks owned (under Spec)                             *)

\* The blocks whose chainmap entry is not 0.
InUse(cm) == {b \in Blocks : cm[b] # 0}

\* Block 0 and the blocks of the chains of the live entities.
Owned(cm, live) == {0} \cup UNION {ChainSet(cm, x.e.start_block) : x \in live}

\* The blocks of walk are all free in cm.
AllFree(cm, walk) == \A k \in 1 .. Len(walk.blocks) : cm[walk.blocks[k]] = 0

\* C25: in every state reached from format by completed create_file,
\* create_directory, write_file and delete_file, the blocks with a
\* non-zero chainmap entry are block 0 and the blocks of the chains of the
\* live entities (the root, every directory and every file reachable from
\* it); after delete_file no block of the deleted file's chain has a
\* non-zero entry.
C25_NoLeakedBlocks ==
    ~crashed =>
        /\ InUse(chainmap) = Owned(chainmap, Live(chainmap, dz))
        /\ (last.op = "delete_file" /\ is_file(last.ent)) =>
               AllFree(chainmap, get_chain(last.dev.cm, last.ent.start_block))

----------------------------------------------------------------------------
(* The geometry format computes, for devices and block sizes of several    *)
(* sizes (under SpecGeometry).  last.device_size is the size of the        *)
(* device, sector the boot sector format has written to it.                *)

BLOCK_ADDRESS_SIZE == 8
ALLOWED_BLOCK_SIZES == <<512, 1024, 2048, 4096, 8192, 16384>>

\* The block sizes format is asked for.
GeometryBlockSizes == {BlockSize, ALLOWED_BLOCK_SIZES[1], ALLOWED_BLOCK_SIZES[4]}

\* Devices of up to MaxGeometryBlocks blocks of each size: a whole number
\* of blocks, and one byte short of one block more.
MaxGeometryBlocks == 4
GeometryDeviceSizes ==
    {n * s + r : n \in 1 .. MaxGeometryBlocks, s \in GeometryBlockSizes,
                 r \in {0, BlockSize - 1, ALLOWED_BLOCK_SIZES[4] - 1}}

InitGeometry ==
    /\ sector = BOOTCODE
    /\ chainmap = NoMap
    /\ dz = ZeroDevice
    /\ crashed = FALSE
    /\ \E size \in GeometryDeviceSizes :
           last = [NoLast EXCEPT !.op = "device", !.device_size = size]
    /\ steps = 0
    /\ created = NoCreated

\* The boot sector of format: size = device.seek(End(0)), with_data,
\* first_root_entity_block = 1, as_raw.
format_sector_of(device_size, block_size) ==
    BootSector_as_raw(
        [BootSector_with_data(device_size, SectorSize, block_size)
            EXCEPT !.first_root_entity_block = 1])

FormatSector(block_size) ==
    /\ last.op = "device"
    /\ sector' = format_sector_of(last.device_size, block_size)
    /\ last' = [last EXCEPT !.op = "format"]
    /\ UNCHANGED <<chainmap, dz, crashed, steps, created>>

\* datazone_offset and datazone_offset_with_block with the boot sector b
\* (NoctFS::new decodes it from the first sector): byte positions on the
\* device.
datazone_offset(b) == b.sector_size + BLOCK_ADDRESS_SIZE * b.block_map_count

datazone_offset_with_block_in(b, block) ==
    datazone_offset(b) + block * b.block_size

\* The blocks the allocator hands out: find_block passes block 0 (END) and
\* answers an index below block_map_count.
HandedOut(b) == 1 .. (b.block_map_count - 1)

\* last.count is the block, last.ret the position of its first byte.
DatazoneOffsetWithBlock(block) ==
    /\ last.op # "device"
    /\ last' = [last EXCEPT
                   !.op = "datazone_offset_with_block", !.count = block,
                   !.ret = datazone_offset_with_block_in(
                               BootSector_from_raw(sector), block)]
    /\ UNCHANGED <<chainmap, dz, sector, crashed, steps, created>>

NextGeometry ==
    \/ \E block_size \in GeometryBlockSizes : FormatSector(block_size)
    \/ \E block \in HandedOut(BootSector_from_raw(sector)) :
           DatazoneOffsetWithBlock(block)

SpecGeometry == InitGeometry /\ [][NextGeometry]_vars

\* C26: for the superblock format computes (block_map_count = device_size
\* / block_size), every block b with 1 <= b < block_map_count, which the
\* allocator can hand out, has its bytes [data_zone + b * block_size,
\* data_zone + (b + 1) * block_size) inside the device.
C26_BlocksInsideDevice ==
    last.op = "datazone_offset_with_block" =>
        last.ret + BootSector_from_raw(sector).block_size <= last.device_size

====
